---- MODULE Spec2Model ----
(***************************************************************************)
(* Model of subsys/tracing/perfetto/decode_trace.py: the varint decoder,   *)
(* the field skipper and the part of print_packet that renders the         *)
(* sequence flags, lists the unhandled schema fields, walks the raw wire   *)
(* bytes and reports the field numbers outside the allow-list.             *)
(*                                                                         *)
(* Offsets are 0-based as in the source: data[pos] of the source is        *)
(* data[pos + 1] here.  A Python int that a varint decodes to is unbounded, *)
(* so it is kept as the set of the positions of its one bits (0 is {}, 5   *)
(* is {0, 2}); ToNat reads such a value back as a number where the buffers *)
(* of the model keep it below 2^31.                                        *)
(***************************************************************************)
EXTENDS Integers, Sequences, FiniteSets, TLC

VARIABLES packet, schema, raw_data, pc, flags, unhandled, pos, field_numbers,
          report, arg, ret

vars == <<packet, schema, raw_data, pc, flags, unhandled, pos, field_numbers,
          report, arg, ret>>

-----------------------------------------------------------------------------
(* Bounds of the model.                                                    *)

\* longest arbitrary byte buffer handed to the raw field walk
MaxLen == 4
\* longest arbitrary byte buffer handed to decode_varint / skip_field alone
MaxFnLen == 3
\* most fields in one serialized packet
MaxFields == 3
\* widest unsigned integer of the varint round trip, in bits
MaxBits == 64
\* most bytes in front of an encoded varint
MaxPrefix == 2

-----------------------------------------------------------------------------
(* Python ints as sets of bit positions.                                  *)

\* the int n, 0 <= n < 2^31
NatBits(n) == {i \in 0..30 : (n \div 2^i) % 2 = 1}

\* the number the bit set a stands for (below 2^31), by Horner's rule
BitsValue(a) ==
    IF a = {} THEN 0
    ELSE LET top == CHOOSE m \in a : \A x \in a : x <= m
             h[k \in 0..(top + 1)] ==
                 IF k = top + 1 THEN 0
                 ELSE (IF k \in a THEN 1 ELSE 0) + 2 * h[k + 1]
         IN  h[0]

\* the same, with the argument bound through a singleton set so that it is
\* evaluated a single time
ToNat(a) == CHOOSE n \in {BitsValue(x) : x \in {a}} : TRUE

\* a | b
BitOr(a, b) == a \cup b

\* a << n
Shl(a, n) == {i + n : i \in a}

\* a >> n
Shr(a, n) == {i - n : i \in {j \in a : j >= n}}

\* a & (2^n - 1)
LowBits(a, n) == {i \in a : i < n}

-----------------------------------------------------------------------------
(* decode_varint                                                           *)

RECURSIVE decode_varint_loop(_, _, _, _)
decode_varint_loop(data, p, result, shift) ==
    IF p < Len(data)
    THEN LET byte == data[p + 1]
             r == BitOr(result, Shl(NatBits(byte % 128), shift))
         IN  IF byte \div 128 = 0
             THEN <<r, p + 1>>
             ELSE decode_varint_loop(data, p + 1, r, shift + 7)
    ELSE <<result, p>>

RECURSIVE decode_varint_loop_shift8(_, _, _, _)
decode_varint_loop_shift8(data, p, result, shift) ==
    IF p < Len(data)
    THEN LET byte == data[p + 1]
             r == BitOr(result, Shl(NatBits(byte % 128), shift))
         IN  IF byte \div 128 = 0
             THEN <<r, p + 1>>
             ELSE decode_varint_loop_shift8(data, p + 1, r, shift + 8)
    ELSE <<result, p>>

\* decode_varint with "shift += 8" in place of "shift += 7"
decode_varint_shift8(data, p) == decode_varint_loop_shift8(data, p, {}, 0)

RECURSIVE decode_varint_loop_droppartial(_, _, _, _)
decode_varint_loop_droppartial(data, p, result, shift) ==
    IF p < Len(data)
    THEN LET byte == data[p + 1]
             r == BitOr(result, Shl(NatBits(byte % 128), shift))
         IN  IF byte \div 128 = 0
             THEN <<r, p + 1>>
             ELSE decode_varint_loop_droppartial(data, p + 1, r, shift + 7)
    ELSE <<{}, p>>

\* decode_varint that drops the partial value when the buffer ends early
decode_varint_droppartial(data, p) == decode_varint_loop_droppartial(data, p, {}, 0)

\* returns <<result, pos>>
decode_varint(data, p) == decode_varint_loop(data, p, {}, 0)

-----------------------------------------------------------------------------
(* skip_field                                                              *)

RECURSIVE skip_varint(_, _)
skip_varint(data, p) ==
    IF p < Len(data) /\ data[p + 1] \div 128 = 1
    THEN skip_varint(data, p + 1)
    ELSE p

\* skip_field whose varint branch returns pos in place of pos + 1
skip_field_varint_off(data, p, wire_type) ==
    CASE wire_type = 0 -> [raised |-> FALSE, pos |-> skip_varint(data, p)]
      [] wire_type = 1 -> [raised |-> FALSE, pos |-> p + 8]
      [] wire_type = 2 ->
            LET d == decode_varint(data, p)
            IN  [raised |-> FALSE, pos |-> d[2] + ToNat(d[1])]
      [] wire_type = 5 -> [raised |-> FALSE, pos |-> p + 4]
      [] OTHER -> [raised |-> TRUE, pos |-> p]

\* skip_field whose length-delimited branch does not add the length
skip_field_nolen(data, p, wire_type) ==
    CASE wire_type = 0 -> [raised |-> FALSE, pos |-> skip_varint(data, p) + 1]
      [] wire_type = 1 -> [raised |-> FALSE, pos |-> p + 8]
      [] wire_type = 2 ->
            LET d == decode_varint(data, p)
            IN  [raised |-> FALSE, pos |-> d[2]]
      [] wire_type = 5 -> [raised |-> FALSE, pos |-> p + 4]
      [] OTHER -> [raised |-> TRUE, pos |-> p]

\* skip_field whose length-delimited branch returns the length alone
skip_field_lenonly(data, p, wire_type) ==
    CASE wire_type = 0 -> [raised |-> FALSE, pos |-> skip_varint(data, p) + 1]
      [] wire_type = 1 -> [raised |-> FALSE, pos |-> p + 8]
      [] wire_type = 2 ->
            LET d == decode_varint(data, p)
            IN  [raised |-> FALSE, pos |-> ToNat(d[1])]
      [] wire_type = 5 -> [raised |-> FALSE, pos |-> p + 4]
      [] OTHER -> [raised |-> TRUE, pos |-> p]

\* skip_field that skips nothing for an unrecognized wire type
skip_field_lenient(data, p, wire_type) ==
    CASE wire_type = 0 -> [raised |-> FALSE, pos |-> skip_varint(data, p) + 1]
      [] wire_type = 1 -> [raised |-> FALSE, pos |-> p + 8]
      [] wire_type = 2 ->
            LET d == decode_varint(data, p)
            IN  [raised |-> FALSE, pos |-> d[2] + ToNat(d[1])]
      [] wire_type = 5 -> [raised |-> FALSE, pos |-> p + 4]
      [] OTHER -> [raised |-> FALSE, pos |-> p]

\* skip_field whose 32-bit branch advances 8 bytes
skip_field_fixed32_8(data, p, wire_type) ==
    CASE wire_type = 0 -> [raised |-> FALSE, pos |-> skip_varint(data, p) + 1]
      [] wire_type = 1 -> [raised |-> FALSE, pos |-> p + 8]
      [] wire_type = 2 ->
            LET d == decode_varint(data, p)
            IN  [raised |-> FALSE, pos |-> d[2] + ToNat(d[1])]
      [] wire_type = 5 -> [raised |-> FALSE, pos |-> p + 8]
      [] OTHER -> [raised |-> TRUE, pos |-> p]

\* returns the new position, or raised = TRUE for the ValueError
skip_field(data, p, wire_type) ==
    CASE wire_type = 0 -> [raised |-> FALSE, pos |-> skip_varint(data, p) + 1]
      [] wire_type = 1 -> [raised |-> FALSE, pos |-> p + 8]
      [] wire_type = 2 ->
            LET d == decode_varint(data, p)
            IN  [raised |-> FALSE, pos |-> d[2] + ToNat(d[1])]
      [] wire_type = 5 -> [raised |-> FALSE, pos |-> p + 4]
      [] OTHER -> [raised |-> TRUE, pos |-> p]

-----------------------------------------------------------------------------
(* The packet print_packet is given, and its serialized bytes.             *)

\* Base-128 little-endian encoding of an unsigned integer (the wire format
\* that SerializeToString emits for tags, lengths and varint values).
RECURSIVE EncodeVarint(_)
EncodeVarint(v) ==
    LET low  == ToNat(LowBits(v, 7))
        rest == Shr(v, 7)
    IN  IF rest = {} THEN <<low>> ELSE <<low + 128>> \o EncodeVarint(rest)

\* tag = (field_number << 3) | wire_type
EncodeTag(num, wt) == EncodeVarint(NatBits(num * 8 + wt))

\* One field of a message: its number, its wire type, its value when it is a
\* varint, its bytes when it is fixed-width or length-delimited.
EncodeField(f) ==
    EncodeTag(f.num, f.wt) \o
    CASE f.wt = 0 -> EncodeVarint(NatBits(f.val))
      [] f.wt = 2 -> EncodeVarint(NatBits(Len(f.body))) \o f.body
      [] OTHER -> f.body

RECURSIVE SerializeFields(_)
SerializeFields(fs) ==
    IF fs = <<>> THEN <<>> ELSE EncodeField(Head(fs)) \o SerializeFields(Tail(fs))

\* packet.SerializeToString()
SerializeToString(p) == SerializeFields(p.fields)

\* The fields a packet of the model can hold: 1 and 2 are not among the six
\* that print_packet formats, 8 is timestamp, 13 is sequence_flags, 60 is
\* track_descriptor (here with uuid = 1).
WireFields ==
    {[num |-> 1, wt |-> 0, val |-> v, body |-> <<>>] : v \in {1, 300}}
    \cup {[num |-> 1, wt |-> 1, val |-> 0, body |-> <<1, 2, 3, 4, 5, 6, 7, 8>>]}
    \cup {[num |-> 1, wt |-> 5, val |-> 0, body |-> <<1, 2, 3, 4>>]}
    \cup {[num |-> 2, wt |-> 2, val |-> 0, body |-> b] :
            b \in {<<>>, <<97, 98, 99>>, <<128, 8>>}}
    \cup {[num |-> 8, wt |-> 0, val |-> 16384, body |-> <<>>]}
    \cup {[num |-> 13, wt |-> 0, val |-> v, body |-> <<>>] : v \in 0..7}
    \cup {[num |-> 60, wt |-> 2, val |-> 0, body |-> <<8, 1>>]}

\* the allow-list with sequence_flags (13) left out
known_field_nums_no13 == {8, 10, 11, 60, 12}

\* known_field_nums of print_packet
known_field_nums == {8, 10, 13, 11, 60, 12}

\* The field numbers the TracePacket schema declares: the six that
\* print_packet reads by name, and possibly more.
TracePacketFields == {8, 10, 11, 12, 13, 60}
Schemas == {TracePacketFields, TracePacketFields \cup {1}}

SeqsUpTo(S, n) == UNION {[1..k -> S] : k \in 0..n}

\* A parsed message serializes the fields its schema declares first, each
\* once and in field-number order, and the fields it kept as unknown after
\* them.
IsSerializationOrder(fs, sch) ==
    \A i, j \in 1..Len(fs) :
        i < j =>
            /\ fs[j].num \in sch => fs[i].num \in sch /\ fs[i].num < fs[j].num

Packets(sch) ==
    {[fields |-> fs] : fs \in {s \in SeqsUpTo(WireFields, MaxFields) :
                                  IsSerializationOrder(s, sch)}}

\* packet.HasField('sequence_flags')
HasSequenceFlags(p) == \E i \in 1..Len(p.fields) : p.fields[i].num = 13

\* packet.sequence_flags
SequenceFlags(p) ==
    LET i == CHOOSE k \in 1..Len(p.fields) : p.fields[k].num = 13
    IN  p.fields[i].val

\* packet.ListFields(): the numbers of the set fields the schema declares
ListFields(p, sch) ==
    SelectSeq([i \in 1..Len(p.fields) |-> p.fields[i].num], LAMBDA n : n \in sch)

-----------------------------------------------------------------------------
(* print_packet                                                            *)

Range(s) == {s[i] : i \in 1..Len(s)}

RECURSIVE sorted(_)
sorted(S) ==
    IF S = {} THEN <<>>
    ELSE LET m == CHOOSE x \in S : \A y \in S : x <= y
         IN  <<m>> \o sorted(S \ {m})

\* RenderFlags that tests bit 2 in place of bit 1 for the second flag
RenderFlags_bit2(sequence_flags) ==
    (IF sequence_flags % 2 = 1 THEN <<"INCREMENTAL_STATE_CLEARED">> ELSE <<>>)
    \o (IF (sequence_flags \div 4) % 2 = 1
        THEN <<"NEEDS_INCREMENTAL_STATE">> ELSE <<>>)

\* the flags list of the sequence_flags line
RenderFlags(sequence_flags) ==
    (IF sequence_flags % 2 = 1 THEN <<"INCREMENTAL_STATE_CLEARED">> ELSE <<>>)
    \o (IF (sequence_flags \div 2) % 2 = 1
        THEN <<"NEEDS_INCREMENTAL_STATE">> ELSE <<>>)

NoFlags == [present |-> FALSE, value |-> 0, names |-> <<>>]
NoReport == [emitted |-> FALSE, fields |-> <<>>]
NoPacket == [fields |-> <<>>]
NoArg == [fn |-> "none"]

\* if packet.HasField('sequence_flags'): ...
PrintFlags ==
    /\ pc = "flags"
    /\ flags' = IF HasSequenceFlags(packet)
                THEN [present |-> TRUE, value |-> SequenceFlags(packet),
                      names |-> RenderFlags(SequenceFlags(packet))]
                ELSE flags
    /\ pc' = "list"
    /\ UNCHANGED <<packet, schema, raw_data, unhandled, pos, field_numbers,
                   report, arg, ret>>

\* the "unhandled field" lines
ListUnhandled ==
    /\ pc = "list"
    /\ unhandled' = SelectSeq(ListFields(packet, schema),
                              LAMBDA n : n \notin known_field_nums)
    /\ pc' = "walk"
    /\ UNCHANGED <<packet, schema, raw_data, flags, pos, field_numbers,
                   report, arg, ret>>

\* one iteration of the raw field walk
WalkField ==
    /\ pc = "walk"
    /\ pos < Len(raw_data)
    /\ LET d == decode_varint(raw_data, pos)
           tag == d[1]
           new_pos == d[2]
           field_num == ToNat(Shr(tag, 3))
           wire_type == ToNat(LowBits(tag, 3))
           s == skip_field(raw_data, new_pos, wire_type)
       IN  /\ field_numbers' = Append(field_numbers, field_num)
           /\ IF s.raised
              THEN pc' = "report" /\ pos' = pos
              ELSE pc' = "walk" /\ pos' = s.pos
    /\ UNCHANGED <<packet, schema, raw_data, flags, unhandled, report, arg, ret>>

\* the loop condition fails
WalkEnd ==
    /\ pc = "walk"
    /\ ~(pos < Len(raw_data))
    /\ pc' = "report"
    /\ UNCHANGED <<packet, schema, raw_data, flags, unhandled, pos,
                   field_numbers, report, arg, ret>>

\* the "contains fields not in our proto" line
Report ==
    /\ pc = "report"
    /\ LET unknown_fields == SelectSeq(field_numbers,
                                       LAMBDA f : f \notin known_field_nums)
       IN  report' = IF unknown_fields # <<>>
                     THEN [emitted |-> TRUE, fields |-> sorted(Range(unknown_fields))]
                     ELSE report
    /\ pc' = "done"
    /\ UNCHANGED <<packet, schema, raw_data, flags, unhandled, pos,
                   field_numbers, arg, ret>>

\* print_packet on a packet parsed from a trace
Init ==
    /\ schema \in Schemas
    /\ packet \in Packets(schema)
    /\ raw_data = SerializeToString(packet)
    /\ pc = "flags"
    /\ flags = NoFlags
    /\ unhandled = <<>>
    /\ pos = 0
    /\ field_numbers = <<>>
    /\ report = NoReport
    /\ arg = NoArg
    /\ ret = <<>>

Next == PrintFlags \/ ListUnhandled \/ WalkField \/ WalkEnd \/ Report

Spec == Init /\ [][Next]_vars

-----------------------------------------------------------------------------
(* The raw field walk on an arbitrary byte buffer.                         *)

\* The bytes of the arbitrary buffers: tags of field 0 with wire types 0, 1
\* and 5 (which also serve as lengths and values), of field 1 with wire
\* types 0 and 3, of field 2 with wire type 2, and two bytes with the
\* continuation bit set.  Every byte has bit 6 clear, so that the field
\* number of a tag that fills a whole buffer of MaxLen + 1 bytes stays
\* below 2^31.
ByteSet == {0, 1, 5, 8, 11, 18, 128, 172}

InitRaw ==
    /\ schema = TracePacketFields
    /\ packet = NoPacket
    /\ raw_data \in SeqsUpTo(ByteSet, MaxLen)
    /\ pc = "walk"
    /\ flags = NoFlags
    /\ unhandled = <<>>
    /\ pos = 0
    /\ field_numbers = <<>>
    /\ report = NoReport
    /\ arg = NoArg
    /\ ret = <<>>

NextRaw == WalkField \/ WalkEnd \/ Report

SpecRaw == InitRaw /\ [][NextRaw]_vars

\* print_packet is sequential code: a step that can run does run
SpecRawFair == SpecRaw /\ WF_vars(NextRaw)

-----------------------------------------------------------------------------
(* decode_varint and skip_field called on their own.                       *)

FnByteSet == {0, 1, 2, 5, 128, 172}

FnBuffers ==
    SeqsUpTo(FnByteSet, MaxFnLen) \cup {EncodeField(f) : f \in WireFields}

CallDecodeVarint ==
    /\ pc = "call"
    /\ arg.fn = "decode_varint"
    /\ ret' = decode_varint(raw_data, arg.pos)
    /\ pc' = "returned"
    /\ UNCHANGED <<packet, schema, raw_data, flags, unhandled, pos,
                   field_numbers, report, arg>>

CallSkipField ==
    /\ pc = "call"
    /\ arg.fn = "skip_field"
    /\ ret' = skip_field(raw_data, arg.pos, arg.wire_type)
    /\ pc' = "returned"
    /\ UNCHANGED <<packet, schema, raw_data, flags, unhandled, pos,
                   field_numbers, report, arg>>

InitFn ==
    /\ schema = TracePacketFields
    /\ packet = NoPacket
    /\ raw_data \in FnBuffers
    /\ arg \in [fn : {"decode_varint"}, pos : 0..(Len(raw_data) + 1)]
               \cup [fn : {"skip_field"}, pos : 0..(Len(raw_data) + 1),
                     wire_type : 0..7]
    /\ pc = "call"
    /\ flags = NoFlags
    /\ unhandled = <<>>
    /\ pos = 0
    /\ field_numbers = <<>>
    /\ report = NoReport
    /\ ret = <<>>

NextFn == CallDecodeVarint \/ CallSkipField

SpecFn == InitFn /\ [][NextFn]_vars

-----------------------------------------------------------------------------
(* decode_varint called on the encoding of a chosen integer.               *)

\* 2^n - 1
Ones(n) == 0..(n - 1)
\* 2^(n-1)
TopBit(n) == {n - 1}

VarintValues ==
    {Ones(n) : n \in 0..MaxBits} \cup {TopBit(n) : n \in 1..MaxBits}
    \cup {NatBits(n) : n \in {127, 128, 300, 16383, 16384}}

\* the bytes that follow the encoding
Tails == {<<>>, <<1>>, <<128>>, <<255, 127>>}

InitVarint ==
    /\ schema = TracePacketFields
    /\ packet = NoPacket
    /\ arg \in [fn : {"decode_varint"}, v : VarintValues, pos : 0..MaxPrefix,
                tail : Tails]
    /\ raw_data = [i \in 1..arg.pos |-> 255] \o EncodeVarint(arg.v) \o arg.tail
    /\ pc = "call"
    /\ flags = NoFlags
    /\ unhandled = <<>>
    /\ pos = 0
    /\ field_numbers = <<>>
    /\ report = NoReport
    /\ ret = <<>>

NextVarint == CallDecodeVarint

SpecVarint == InitVarint /\ [][NextVarint]_vars

-----------------------------------------------------------------------------
(* Claims checked under Spec: print_packet on a parsed packet.             *)

\* C1: for a buffer that is the concatenation of well-formed (tag, payload)
\* pairs, the walk ends with the offset at the buffer end and with exactly
\* the field numbers of the pairs, one per pair, in buffer order.
C1_WalkYieldsFieldNumbers ==
    pc \in {"report", "done"} =>
        /\ pos = Len(raw_data)
        /\ field_numbers = [i \in 1..Len(packet.fields) |-> packet.fields[i].num]

\* field 1 varint 300 followed by field 2 length-delimited "abc" gave [1, 2]
C1_Witness ==
    /\ pc = "done"
    /\ raw_data = <<8, 172, 2, 18, 3, 97, 98, 99>>
    /\ field_numbers = <<1, 2>>

\* C5: the unknown-field report is the set of walked field numbers outside
\* {8, 10, 11, 12, 13, 60}, ascending and without repeats, and it is emitted
\* exactly when that set is not empty.
C5_ReportIsSortedDifference ==
    pc = "done" =>
        LET D == Range(field_numbers) \ {8, 10, 11, 12, 13, 60}
        IN  /\ report.emitted <=> D # {}
            /\ Range(report.fields) = D
            /\ \A i, j \in 1..Len(report.fields) :
                   i < j => report.fields[i] < report.fields[j]

\* a known field, then two unknown ones out of order: only [1, 2] reported
C5_Witness ==
    /\ pc = "done"
    /\ field_numbers = <<13, 2, 1>>
    /\ report = [emitted |-> TRUE, fields |-> <<1, 2>>]

\* C6: the raw-wire report lists only field numbers that are on the wire and
\* that the schema does not expose: no number that ListFields exposes is in it.
C6_RawReportOnlySchemaInvisible ==
    pc = "done" =>
        \A n \in Range(report.fields) :
            /\ n \in Range(field_numbers)
            /\ n \notin Range(ListFields(packet, schema))

\* C7: the rendered flag list holds INCREMENTAL_STATE_CLEARED exactly when
\* bit 0 of sequence_flags is set and NEEDS_INCREMENTAL_STATE exactly when
\* bit 1 is set, nothing else, nothing twice, and the first of two names is
\* INCREMENTAL_STATE_CLEARED; the line is rendered whenever the field is set.
C7_FlagsRendered ==
    /\ (pc # "flags" /\ HasSequenceFlags(packet)) =>
           flags.present /\ flags.value = SequenceFlags(packet)
    /\ flags.present =>
           LET v == flags.value
               n == flags.names
           IN  /\ ("INCREMENTAL_STATE_CLEARED" \in Range(n)) <=> (v % 2 = 1)
               /\ ("NEEDS_INCREMENTAL_STATE" \in Range(n)) <=> ((v \div 2) % 2 = 1)
               /\ Range(n) \subseteq {"INCREMENTAL_STATE_CLEARED",
                                      "NEEDS_INCREMENTAL_STATE"}
               /\ Len(n) = Cardinality(Range(n))
               /\ Len(n) = 2 => n[1] = "INCREMENTAL_STATE_CLEARED"

\* bits 0, 1 and 2 set: both names, in declaration order, and no third
C7_Witness ==
    /\ flags.present
    /\ flags.value = 7
    /\ flags.names = <<"INCREMENTAL_STATE_CLEARED", "NEEDS_INCREMENTAL_STATE">>

-----------------------------------------------------------------------------
(* Claims checked under SpecRaw: the walk on an arbitrary buffer.          *)

\* the tag the walk decodes at its current offset: <<tag, new_pos>>
WalkTag == decode_varint(raw_data, pos)
WalkFieldNum == ToNat(Shr(WalkTag[1], 3))
WalkWireType == ToNat(LowBits(WalkTag[1], 3))
Walking == pc = "walk" /\ pos < Len(raw_data)

\* the walk is at a length-delimited field that declares more bytes than
\* the buffer has left after the length
AtOverrun ==
    /\ Walking
    /\ WalkWireType = 2
    /\ LET l == decode_varint(raw_data, WalkTag[2])
       IN  ToNat(l[1]) > Len(raw_data) - l[2]

\* C3: at a length-delimited field whose declared length exceeds the bytes
\* left, the walk records the field and decodes no further tag, it goes on
\* to the report (nothing escapes to the caller), and once it has stopped
\* the recorded field numbers stay as they are, earlier ones included.
C3_OverrunStopsWalk ==
    [][ /\ AtOverrun =>
              /\ pc' \in {"walk", "report"}
              /\ ~(pos' < Len(raw_data))
              /\ field_numbers' = Append(field_numbers, WalkFieldNum)
        /\ (pc = "walk" /\ ~Walking) =>
              pc' = "report" /\ field_numbers' = field_numbers
        /\ pc = "report" => pc' = "done" /\ field_numbers' = field_numbers
      ]_vars

\* field 1 varint 1, then field 2 declaring 5 bytes with none left
C3_Witness ==
    /\ raw_data = <<8, 1, 18, 5>>
    /\ pc = "done"
    /\ pos = 9
    /\ field_numbers = <<1, 2>>

\* the walk is at a tag whose wire type skip_field rejects
AtBadWireType == Walking /\ WalkWireType \in {3, 4, 6, 7}

\* C4: skip_field raises for the wire types 3, 4, 6 and 7; at such a tag the
\* walk records the tag's field number after the earlier ones and breaks to
\* the report, which leaves the recorded field numbers as they are.
C4_BadWireTypeStopsWalk ==
    [][ /\ \A w \in {3, 4, 6, 7} : \A p \in 0..Len(raw_data) :
              skip_field(raw_data, p, w).raised
        /\ AtBadWireType =>
              /\ pc' = "report"
              /\ field_numbers' = Append(field_numbers, WalkFieldNum)
        /\ pc = "report" => pc' = "done" /\ field_numbers' = field_numbers
      ]_vars

\* field 1 varint 1, then a tag of field 1 with wire type 3, then a byte
\* that is never decoded
C4_Witness ==
    /\ raw_data = <<8, 1, 11, 8>>
    /\ pc = "done"
    /\ pos = 2
    /\ field_numbers = <<1, 1>>

-----------------------------------------------------------------------------
(* Claim checked under SpecRawFair.                                        *)

\* C10: the walk terminates on every buffer: each iteration that does not
\* break moves the offset forward (the tag takes at least one byte and the
\* skip never moves back), the walk reaches its end, and it records at most
\* len(data) field numbers.
C10_WalkTerminates ==
    /\ <>(pc = "done")
    /\ [][ /\ Walking => WalkTag[2] > pos
           /\ (pc = "walk" /\ pc' = "walk") =>
                 pos' >= WalkTag[2] /\ pos' > pos
         ]_vars
    /\ [](Len(field_numbers) <= Len(raw_data))

\* a buffer of continuation bytes only, walked to the end
C10_Witness ==
    /\ raw_data = <<128, 172, 128, 128>>
    /\ pc = "done"
    /\ Len(field_numbers) = 1

-----------------------------------------------------------------------------
(* Claim checked under SpecVarint.                                         *)

\* C2: decoding the base-128 encoding of v placed at offset p returns v and
\* the offset p + n just after it, n being the number of 7-bit groups of v
\* (1 for 0), whatever bytes follow the encoding.
C2_VarintRoundTrip ==
    pc = "returned" =>
        LET width == IF arg.v = {} THEN 0
                     ELSE 1 + CHOOSE m \in arg.v : \A x \in arg.v : x <= m
            n == IF width = 0 THEN 1 ELSE (width + 6) \div 7
        IN  /\ ret[1] = arg.v
            /\ ret[2] = arg.pos + n

\* 2^64 - 1 behind two bytes and in front of two more: ten bytes decoded
C2_Witness ==
    /\ pc = "returned"
    /\ arg.v = 0..63
    /\ arg.pos = 2
    /\ arg.tail = <<255, 127>>
    /\ ret = <<0..63, 12>>

-----------------------------------------------------------------------------
(* Claims checked under SpecFn.                                            *)

\* the offsets at or after p of the bytes whose continuation bit is clear
Terminators(data, p) == {q \in p..(Len(data) - 1) : data[q + 1] < 128}

Least(S) == CHOOSE m \in S : \A x \in S : m <= x

SkipCall == pc = "returned" /\ arg.fn = "skip_field" /\ arg.wire_type \in {0, 1, 2, 5}

\* arg.pos is the offset just after a complete tag varint of the buffer
\* whose wire type is arg.wire_type
AfterTag ==
    /\ arg.pos >= 1
    /\ arg.pos <= Len(raw_data)
    /\ raw_data[arg.pos] < 128
    /\ \E q \in 0..(arg.pos - 1) :
          LET d == decode_varint(raw_data, q)
          IN  d[2] = arg.pos /\ ToNat(LowBits(d[1], 3)) = arg.wire_type

\* C8 as stated: after a tag, skip_field returns pos + 8 (wire type 1),
\* pos + 4 (5), the end of the length varint plus the length (2), the offset
\* just past the first byte without continuation bit (0), and the result is
\* the position of the next tag, never greater than the buffer length.
C8_SkipReturnsNextTag ==
    (SkipCall /\ AfterTag) =>
        LET T == Terminators(raw_data, arg.pos)
            d == decode_varint(raw_data, arg.pos)
        IN  /\ ~ret.raised
            /\ CASE arg.wire_type = 1 -> ret.pos = arg.pos + 8
                 [] arg.wire_type = 5 -> ret.pos = arg.pos + 4
                 [] arg.wire_type = 2 -> ret.pos = d[2] + ToNat(d[1])
                 [] arg.wire_type = 0 -> T # {} /\ ret.pos = Least(T) + 1
            /\ ret.pos <= Len(raw_data)

\* the payload that starts at arg.pos lies wholly inside the buffer
PayloadContained ==
    LET T == Terminators(raw_data, arg.pos)
        d == decode_varint(raw_data, arg.pos)
    IN  CASE arg.wire_type = 1 -> arg.pos + 8 <= Len(raw_data)
          [] arg.wire_type = 5 -> arg.pos + 4 <= Len(raw_data)
          [] arg.wire_type = 2 -> T # {} /\ d[2] + ToNat(d[1]) <= Len(raw_data)
          [] arg.wire_type = 0 -> T # {}

\* C8 amended: the same offsets for every pos, with max(pos, len(data)) + 1
\* for wire type 0 when no byte at or after pos has a clear continuation
\* bit; the result is never smaller than pos, and it is at most the buffer
\* length when the payload lies wholly inside the buffer.
C8_SkipOffsets ==
    SkipCall =>
        LET T == Terminators(raw_data, arg.pos)
            d == decode_varint(raw_data, arg.pos)
            end == IF arg.pos > Len(raw_data) THEN arg.pos ELSE Len(raw_data)
        IN  /\ ~ret.raised
            /\ CASE arg.wire_type = 1 -> ret.pos = arg.pos + 8
                 [] arg.wire_type = 5 -> ret.pos = arg.pos + 4
                 [] arg.wire_type = 2 -> ret.pos = d[2] + ToNat(d[1])
                 [] arg.wire_type = 0 ->
                        ret.pos = IF T = {} THEN end + 1 ELSE Least(T) + 1
            /\ ret.pos >= arg.pos
            /\ PayloadContained => ret.pos <= Len(raw_data)

\* the payload of a complete length-delimited field skipped to the buffer end
C8_Witness ==
    /\ SkipCall
    /\ raw_data = <<18, 3, 97, 98, 99>>
    /\ arg.pos = 1
    /\ arg.wire_type = 2
    /\ ret = [raised |-> FALSE, pos |-> 5]

\* the value of the low 7 bits of the bytes from offset p to the buffer end,
\* least significant group first
PartialValue(data, p) ==
    LET s[q \in p..Len(data)] ==
            IF q = Len(data) THEN 0 ELSE (data[q + 1] % 128) + 128 * s[q + 1]
    IN  s[p]

\* C9: when no byte at or after pos has a clear continuation bit,
\* decode_varint returns (0, pos) for pos at or past the buffer end, and
\* otherwise len(data) with the value of the 7-bit groups read so far.
C9_TruncatedVarint ==
    (pc = "returned" /\ arg.fn = "decode_varint"
        /\ Terminators(raw_data, arg.pos) = {}) =>
        IF arg.pos >= Len(raw_data)
        THEN ret = <<{}, arg.pos>>
        ELSE /\ ret[2] = Len(raw_data)
             /\ ToNat(ret[1]) = PartialValue(raw_data, arg.pos)

\* two continuation bytes up to the buffer end: 44 + 128 * 0
C9_Witness ==
    /\ pc = "returned"
    /\ arg.fn = "decode_varint"
    /\ raw_data = <<1, 172, 128>>
    /\ arg.pos = 1
    /\ ret = <<{2, 3, 5}, 3>>

====
